---- MODULE Spec2Model ----
(***************************************************************************)
(* Model of vk_photo9.py: the interactive backup loop (VKPhotoBackup.run), *)
(* the prompt wizard and transfer pipeline (PhotoProcessor.process_user),  *)
(* the paginated photo listing (VKAPI.get_all_photos, VKAPI.get_photos),   *)
(* the album access check (VKAPI.check_album_access) and the rendition     *)
(* selection (PhotoSaver.get_largest_size).                                *)
(*                                                                         *)
(* One action is one blocking step of the single-threaded program: one     *)
(* line read from input(), or one remote call together with the code that  *)
(* runs until the next blocking step.  Remote replies, user input and the  *)
(* result of each transfer are drawn from small sets.                      *)
(***************************************************************************)
EXTENDS Integers, Sequences, FiniteSets, TLC

\* ---- bounds of the model -------------------------------------------------
\* Largest number of photos an album on the server holds.
MaxPhotos == 3
\* Page size requested by get_all_photos ('count': 1000 in the source),
\* scaled down so that full pages, short pages and empty last pages occur.
PageCount == 2
\* Longest list of renditions given to get_largest_size.
MaxSizes == 3
\* Largest width / height of a rendition.
MaxDim == 2

\* ---- program constants -----------------------------------------------------
\* count=5 of the top-N listing.
TopCount == 5
\* error_code of "access denied" in a VK API error reply.
AccessDenied == 200
\* Seconds per day: strftime('%Y-%m-%d') keeps the day of the timestamp.
DaySeconds == 86400

VARIABLES
    pc,             \* position of the program
    inp,            \* the line input() returned in the last step ("" if none was read)
    friends,        \* run: friends (ids), fetched once
    user_id,        \* process_user: user_id
    source_choice,  \* process_user: source_choice ("" until read)
    albums,         \* process_user: albums (ids), the reply of get_albums
    album_id,       \* process_user: album_id ("" until fixed)
    access,         \* check_album_access of this call: "none", "passed", "denied", "raised"
    access_reply,   \* the API reply the access check got (NoReply if no check was made)
    save_choice,    \* process_user: save_choice ("" until read)
    photo_choice,   \* process_user: photo_choice ("" until read)
    server,         \* the photos the remote album holds, in the server's order
    faithful,       \* TRUE while every page served was as long as the album allows
    all_photos,     \* get_all_photos: all_photos
    offset,         \* get_all_photos: offset
    requests,       \* number of photos.get requests issued in this call
    pages,          \* the pages received by get_all_photos in this call, in order
    fetch,          \* listing of this call: "none", "running", "returned", "denied", "raised"
    fetch_reply,    \* the last API reply to a photos.get request (NoReply if none)
    photos,         \* process_user: photos
    folders,        \* number of create_folder requests issued in this call
    given_sizes,    \* the renditions last given to get_largest_size (<<>> if none)
    largest,        \* process_user: largest, the rendition last selected
    idx,            \* position of the for loop over photos (next photo to transfer)
    attempts,       \* transfers attempted in this call: <<photo id, success>>, in order
    saved_photos,   \* process_user: saved_photos
    writes,         \* number of times the manifest was written in this call
    manifest,       \* the manifest written in this call: <<file name, entries>> or <<>>
    reported,       \* the count printed after the manifest write (-1 if none)
    outcome         \* process_user: "none", "running", "manifest", "early_return", "exception"

runVars == <<friends>>
paramVars == <<user_id, source_choice, albums, album_id, access, access_reply,
               save_choice, photo_choice>>
fetchVars == <<server, faithful, all_photos, offset, requests, pages, fetch,
               fetch_reply, photos>>
transferVars == <<folders, given_sizes, largest, idx, attempts, saved_photos, writes, manifest, reported>>
vars == <<pc, inp, friends, user_id, source_choice, albums, album_id, access,
          access_reply, save_choice, photo_choice, server, faithful, all_photos,
          offset, requests, pages, fetch, fetch_reply, photos, folders, given_sizes,
          largest, idx,
          attempts, saved_photos, writes, manifest, reported, outcome>>

\* ---- inputs -----------------------------------------------------------------
\* Lines the user may type at a prompt.
Inputs == {"0", "1", "2", "3", "4", "x"}
\* Replies of the VK API to one request: a response, an error reply (with
\* error_code 200 or another code), or a transport/HTTP failure
\* (requests.exceptions.RequestException).
OtherError == AccessDenied + 1
Replies ==
    { [status |-> "response", error_code |-> 0],
      [status |-> "error", error_code |-> AccessDenied],
      [status |-> "error", error_code |-> OtherError],
      [status |-> "transport", error_code |-> 0] }
NoReply == [status |-> "none", error_code |-> 0]
\* Friend lists get_friends may return (ids).
FriendLists == {<<>>, <<"101">>}
\* Ids typed at "Введите ID пользователя VK".
ManualIds == {"102"}
\* Album lists get_albums may return (ids; need_system=1 lists system albums
\* under negative integer ids, which are never equal to 'profile' or 'wall').
AlbumLists == {<<>>, <<"-6", "256">>}

Min(a, b) == IF a < b THEN a ELSE b

\* int(input(...)): the value, or ValueError.
IsInt(s) == s \in {"0", "1", "2", "3", "4"}
ToInt(s) == CASE s = "0" -> 0 [] s = "1" -> 1 [] s = "2" -> 2
              [] s = "3" -> 3 [] s = "4" -> 4

\* ---- photos -------------------------------------------------------------------
\* A rendition: {'type', 'width', 'height'} (the url is determined by the type).
SizeTypes == {"s", "x"}
Renditions == [type : SizeTypes, width : 1..MaxDim, height : 1..MaxDim]

\* Two kinds of photo metadata: one rendition; three renditions with a tie
\* for the largest area.
PhotoKinds ==
    { [likes |-> 3, date |-> 100,
       sizes |-> << [type |-> "s", width |-> 1, height |-> 1] >>],
      [likes |-> 7, date |-> 86500,
       sizes |-> << [type |-> "s", width |-> 1, height |-> 2],
                    [type |-> "x", width |-> 2, height |-> 2],
                    [type |-> "s", width |-> 2, height |-> 2] >>] }

NoRendition == [type |-> "", width |-> 0, height |-> 0]

MkPhoto(i, k) == [id |-> i, likes |-> k.likes, date |-> k.date, sizes |-> k.sizes]

\* The albums a server may hold: n photos, ids 1..n in the server's order.
ServerAlbums ==
    UNION { { [i \in 1..n |-> MkPhoto(i, f[i])] : f \in [1..n -> PhotoKinds] } :
            n \in 0..MaxPhotos }

\* ---- pure functions of the source ------------------------------------------------
\* PhotoSaver.get_largest_size: max(sizes, key=width*height).  Python's max
\* scans left to right and replaces its candidate only on a strictly larger key.
Area(x) == x.width * x.height

RECURSIVE MaxFrom(_, _, _)
MaxFrom(sizes, i, best) ==
    IF i > Len(sizes) THEN best
    ELSE MaxFrom(sizes, i + 1, IF Area(sizes[i]) > Area(best) THEN sizes[i] ELSE best)

\* Faulty variant: the key is the width alone.
RECURSIVE MaxWidthFrom(_, _, _)
MaxWidthFrom(sizes, i, best) ==
    IF i > Len(sizes) THEN best
    ELSE MaxWidthFrom(sizes, i + 1, IF sizes[i].width > best.width THEN sizes[i] ELSE best)

get_largest_size_Width(sizes) == MaxWidthFrom(sizes, 2, sizes[1])

get_largest_size(sizes) == MaxFrom(sizes, 2, sizes[1])

\* file_name: f"{likes}_{date:%Y-%m-%d}.jpg": the like count and the day.
FileName(photo) == <<photo.likes, photo.date \div DaySeconds>>

\* The manifest entry appended for a transferred photo.
ManifestEntry(photo) ==
    LET big == get_largest_size(photo.sizes)
    IN [file_name |-> FileName(photo), size |-> big.type,
        width |-> big.width, height |-> big.height]

\* Faulty variant: the entry is appended whatever the transfer returned.
AppendSaved_Always(saved, photo, success) == Append(saved, ManifestEntry(photo))

\* saved_photos after one transfer: the entry is appended only on success.
AppendSaved(saved, photo, success) ==
    IF success THEN Append(saved, ManifestEntry(photo)) ELSE saved

\* Faulty variant: a failed transfer is raised out of the loop.
AfterTransfer_Abort(success, last) ==
    IF ~success THEN "abort" ELSE IF last THEN "write_manifest" ELSE "transfer"

\* The for loop after one transfer: it goes on to the next photo whatever the
\* transfer returned, and to the manifest write after the last photo.
AfterTransfer(success, last) ==
    IF last THEN "write_manifest" ELSE "transfer"

\* Faulty variant: the loop breaks on a full page too.
ShouldBreak_LE(page) == Len(page) <= PageCount

\* get_all_photos: the loop breaks on a page shorter than params['count'].
ShouldBreak(page) == Len(page) < PageCount

\* Faulty variant: the offset counts pages, not photos.
NextOffset_Page(off, page) == off + 1

\* get_all_photos: offset += len(photos).
NextOffset(off, page) == off + Len(page)

\* get_all_photos: what an API reply leads to: "items", "empty" (return []),
\* or "raise".
AllPhotosReply(reply) ==
    IF reply.status = "transport" THEN "raise"
    ELSE IF reply.status = "error"
         THEN IF reply.error_code = AccessDenied THEN "empty" ELSE "raise"
         ELSE "items"

\* get_photos: any 'error' in the reply raises; a transport failure is re-raised.
PhotosReply(reply) ==
    IF reply.status = "transport" THEN "raise"
    ELSE IF reply.status = "error" THEN "raise"
         ELSE "items"

\* Faulty variant: error_code 200 is not told apart from the other API errors.
check_album_access_NoCode(reply, n) ==
    IF reply.status = "transport" THEN "false"
    ELSE IF reply.status = "error" THEN "raise"
         ELSE IF n > 0 THEN "true" ELSE "false"

\* check_album_access: "true", "false" or "raise".  n is the number of items
\* of a response.
check_album_access(reply, n) ==
    IF reply.status = "transport" THEN "false"
    ELSE IF reply.status = "error"
         THEN IF reply.error_code = AccessDenied THEN "false" ELSE "raise"
         ELSE IF n > 0 THEN "true" ELSE "false"

\* process_user: the options each prompt accepts.
ValidSource(s) == s \in {"1", "2", "3"}
ValidSave(s) == s \in {"1", "2"}
ValidScope(s) == s \in {"1", "2"}

\* Faulty variant: the access check is made for every album.
NeedsAccessCheck_Always(a) == TRUE

\* process_user: the access check is made unless the album is 'profile' or 'wall'.
NeedsAccessCheck(a) == a # "profile" /\ a # "wall"

\* Faulty variant: the empty listing is not returned on.
NoPhotos_Never(ph) == FALSE

\* process_user: `if not photos: return`.
NoPhotos(ph) == Len(ph) = 0

\* `for photo in photos`: the body runs once per photo; with no photo the
\* manifest write is next.
LoopEntry(ph) == IF Len(ph) = 0 THEN "write_manifest" ELSE "transfer"

\* Faulty variant: an exception of process_user is raised out of run.
AfterProcessUser_Raise(result) ==
    IF result = "exception" THEN "run_raised" ELSE "menu"

\* run: where the loop goes after process_user returned or raised: every
\* Exception is caught and the while loop starts over.
AfterProcessUser(result) == "menu"

\* The page the server returns for a request (offset, count): at most count
\* photos from position offset+1 on.
ServerPage(album, off, n) == SubSeq(album, off + 1, off + n)
FullLen(album, off, count) ==
    IF Len(album) > off THEN Min(count, Len(album) - off) ELSE 0

\* ---- state after construction ---------------------------------------------------
\* The per-call state of process_user before its first prompt.
FreshCall ==
    /\ source_choice = "" /\ albums = <<>> /\ album_id = ""
    /\ access = "none" /\ access_reply = NoReply
    /\ save_choice = "" /\ photo_choice = ""
    /\ server = <<>> /\ faithful = TRUE
    /\ all_photos = <<>> /\ offset = 0 /\ requests = 0 /\ pages = <<>>
    /\ fetch = "none" /\ fetch_reply = NoReply /\ photos = <<>>
    /\ folders = 0 /\ given_sizes = <<>> /\ largest = NoRendition /\ idx = 1
    /\ attempts = <<>> /\ saved_photos = <<>>
    /\ writes = 0 /\ manifest = <<>> /\ reported = -1

Init ==
    /\ pc = "get_friends"
    /\ inp = ""
    /\ friends = <<>>
    /\ user_id = ""
    /\ outcome = "none"
    /\ FreshCall

\* ---- VKPhotoBackup.run ------------------------------------------------------------
\* friends = self.vk_api.get_friends(): any error reply or transport failure
\* is raised out of run.
GetFriends ==
    /\ pc = "get_friends"
    /\ \E reply \in Replies :
         IF reply.status = "response"
         THEN \E fl \in FriendLists : friends' = fl /\ pc' = "menu"
         ELSE friends' = friends /\ pc' = "run_raised"
    /\ inp' = ""
    /\ UNCHANGED <<paramVars, fetchVars, transferVars, outcome>>

\* The locals of process_user, and what the call has done, at its start.
ResetCall ==
    /\ source_choice' = "" /\ albums' = <<>> /\ album_id' = ""
    /\ access' = "none" /\ access_reply' = NoReply
    /\ save_choice' = "" /\ photo_choice' = ""
    /\ server' = <<>> /\ faithful' = TRUE
    /\ all_photos' = <<>> /\ offset' = 0 /\ requests' = 0 /\ pages' = <<>>
    /\ fetch' = "none" /\ fetch_reply' = NoReply /\ photos' = <<>>
    /\ folders' = 0 /\ given_sizes' = <<>> /\ largest' = NoRendition /\ idx' = 1
    /\ attempts' = <<>> /\ saved_photos' = <<>>
    /\ writes' = 0 /\ manifest' = <<>> /\ reported' = -1

\* The call self.photo_processor.process_user(u): its first prompt is next.
EnterProcessUser(u) ==
    /\ pc' = "source_prompt"
    /\ user_id' = u
    /\ outcome' = "running"
    /\ ResetCall

\* process_user returned or raised: back in run.
LeaveProcessUser(result) ==
    /\ outcome' = result
    /\ pc' = AfterProcessUser(result)

\* choice = input("Введите номер действия (1, 2, 3 или 4): ")
Menu ==
    /\ pc = "menu"
    /\ \E choice \in Inputs :
         /\ inp' = choice
         /\ IF choice = "1"
            THEN /\ pc' = "friend_prompt"
                 /\ UNCHANGED <<paramVars, fetchVars, transferVars, outcome>>
            ELSE IF choice = "2"
            THEN EnterProcessUser("me")
            ELSE IF choice = "3"
            THEN /\ pc' = "id_prompt"
                 /\ UNCHANGED <<paramVars, fetchVars, transferVars, outcome>>
            ELSE IF choice = "4"
            THEN /\ pc' = "exited"
                 /\ UNCHANGED <<paramVars, fetchVars, transferVars, outcome>>
            ELSE /\ pc' = "menu"
                 /\ UNCHANGED <<paramVars, fetchVars, transferVars, outcome>>
    /\ UNCHANGED runVars

\* friend_choice = int(input("Введите номер друга из списка: "))
FriendPrompt ==
    /\ pc = "friend_prompt"
    /\ \E line \in Inputs :
         /\ inp' = line
         /\ IF IsInt(line) /\ 1 <= ToInt(line) /\ ToInt(line) <= Len(friends)
            THEN EnterProcessUser(friends[ToInt(line)])
            ELSE /\ pc' = "friend_prompt"
                 /\ UNCHANGED <<paramVars, fetchVars, transferVars, outcome>>
    /\ UNCHANGED runVars

\* user_id = input("Введите ID пользователя VK: ")
IdPrompt ==
    /\ pc = "id_prompt"
    /\ \E line \in ManualIds :
         /\ inp' = line
         /\ EnterProcessUser(line)
    /\ UNCHANGED runVars

\* ---- PhotoProcessor.process_user: the prompts ---------------------------------------
\* source_choice = input("Введите номер источника (1, 2 или 3): ")
SourcePrompt ==
    /\ pc = "source_prompt"
    /\ \E line \in Inputs :
         /\ inp' = line
         /\ IF ValidSource(line)
            THEN /\ source_choice' = line
                 /\ IF line = "1"
                    THEN album_id' = "profile" /\ pc' = "check_access"
                    ELSE IF line = "2"
                    THEN album_id' = "wall" /\ pc' = "check_access"
                    ELSE album_id' = album_id /\ pc' = "get_albums"
            ELSE /\ pc' = "source_prompt"
                 /\ UNCHANGED <<source_choice, album_id>>
    /\ UNCHANGED <<runVars, user_id, albums, access, access_reply, save_choice,
                   photo_choice, fetchVars, transferVars, outcome>>

\* albums = self.vk_api.get_albums(user_id): any error reply or transport
\* failure is raised out of process_user.
GetAlbums ==
    /\ pc = "get_albums"
    /\ inp' = ""
    /\ \E reply \in Replies :
         IF reply.status = "response"
         THEN \E al \in AlbumLists :
                 /\ albums' = al
                 /\ pc' = "album_prompt"
                 /\ outcome' = outcome
         ELSE /\ albums' = albums
              /\ LeaveProcessUser("exception")
    /\ UNCHANGED <<runVars, user_id, source_choice, album_id, access, access_reply,
                   save_choice, photo_choice, fetchVars, transferVars>>

\* album_choice = int(input("Введите номер альбома: "))
AlbumPrompt ==
    /\ pc = "album_prompt"
    /\ \E line \in Inputs :
         /\ inp' = line
         /\ IF IsInt(line) /\ 1 <= ToInt(line) /\ ToInt(line) <= Len(albums)
            THEN /\ album_id' = albums[ToInt(line)]
                 /\ pc' = "check_access"
            ELSE /\ album_id' = album_id
                 /\ pc' = "album_prompt"
    /\ UNCHANGED <<runVars, user_id, source_choice, albums, access, access_reply,
                   save_choice, photo_choice, fetchVars, transferVars, outcome>>

\* if album_id != 'profile' and album_id != 'wall':
\*     if not self.vk_api.check_album_access(user_id, album_id): return
CheckAccess ==
    /\ pc = "check_access"
    /\ inp' = ""
    /\ IF NeedsAccessCheck(album_id)
       THEN \E reply \in Replies, n \in 0..1 :
              /\ reply.status # "response" => n = 0
              /\ access_reply' = reply
              /\ LET r == check_album_access(reply, n)
                 IN IF r = "true"
                    THEN access' = "passed" /\ pc' = "save_prompt" /\ outcome' = outcome
                    ELSE IF r = "false"
                    THEN access' = "denied" /\ LeaveProcessUser("early_return")
                    ELSE access' = "raised" /\ LeaveProcessUser("exception")
       ELSE /\ pc' = "save_prompt"
            /\ UNCHANGED <<access, access_reply, outcome>>
    /\ UNCHANGED <<runVars, user_id, source_choice, albums, album_id, save_choice,
                   photo_choice, fetchVars, transferVars>>

\* save_choice = input("Выберите место сохранения (1 - Локально, 2 - Яндекс.Диск): ")
SavePrompt ==
    /\ pc = "save_prompt"
    /\ \E line \in Inputs :
         /\ inp' = line
         /\ IF ValidSave(line)
            THEN save_choice' = line /\ pc' = "photo_prompt"
            ELSE save_choice' = save_choice /\ pc' = "save_prompt"
    /\ UNCHANGED <<runVars, user_id, source_choice, albums, album_id, access,
                   access_reply, photo_choice, fetchVars, transferVars, outcome>>

\* save_locally = save_choice == '1'; save_all_photos = photo_choice == '1'
save_locally == save_choice = "1"
save_all_photos == photo_choice = "1"

\* photo_choice = input("Выберите количество фотографий (1 - Все фото, 2 - Топ-5 по лайкам): ")
\* The album the server holds for (user_id, album_id) is drawn here, before
\* the first listing request.
PhotoPrompt ==
    /\ pc = "photo_prompt"
    /\ \E line \in Inputs :
         /\ inp' = line
         /\ IF ValidScope(line)
            THEN /\ photo_choice' = line
                 /\ fetch' = "running"
                 /\ pc' = IF save_all_photos' THEN "get_all_photos" ELSE "get_photos"
                 /\ \E alb \in ServerAlbums : server' = alb
            ELSE /\ pc' = "photo_prompt"
                 /\ UNCHANGED <<photo_choice, fetch, server>>
    /\ UNCHANGED <<runVars, user_id, source_choice, albums, album_id, access,
                   access_reply, save_choice, faithful, all_photos, offset, requests,
                   pages, fetch_reply, photos, transferVars, outcome>>

\* ---- the listing -----------------------------------------------------------------------
\* process_user once the listing returned ph: `if not photos: return`, then
\* the folders (cloud) or the for loop (local).
Fetched(ph) ==
    /\ photos' = ph
    /\ IF NoPhotos(ph)
       THEN LeaveProcessUser("early_return")
       ELSE /\ pc' = IF save_locally THEN LoopEntry(ph) ELSE "create_folder"
            /\ outcome' = outcome

\* photos = self.vk_api.get_photos(user_id, album_id, count=5)
GetPhotos ==
    /\ pc = "get_photos"
    /\ inp' = ""
    /\ requests' = requests + 1
    /\ \E reply \in Replies, n \in 0..Min(TopCount, Len(server)) :
         /\ reply.status # "response" => n = 0
         /\ fetch_reply' = reply
         /\ faithful' = (faithful /\ n = FullLen(server, 0, TopCount))
         /\ IF PhotosReply(reply) = "items"
            THEN /\ fetch' = "returned"
                 /\ Fetched(ServerPage(server, 0, n))
            ELSE /\ fetch' = "raised"
                 /\ photos' = photos
                 /\ LeaveProcessUser("exception")
    /\ UNCHANGED <<runVars, paramVars, server, all_photos, offset, pages, transferVars>>

\* One iteration of the while loop of get_all_photos (one photos.get request
\* with params['offset'] = offset), and, when the function returns, the code
\* of process_user up to its next blocking step.
GetAllPhotos ==
    /\ pc = "get_all_photos"
    /\ inp' = ""
    /\ requests' = requests + 1
    /\ \E reply \in Replies, n \in 0..FullLen(server, offset, PageCount) :
         /\ reply.status # "response" => n = 0
         /\ fetch_reply' = reply
         /\ LET r == AllPhotosReply(reply)
                page == ServerPage(server, offset, n)
            IN IF r = "items"
               THEN /\ pages' = Append(pages, page)
                    /\ all_photos' = all_photos \o page
                    /\ faithful' = (faithful /\ n = FullLen(server, offset, PageCount))
                    /\ IF ShouldBreak(page)
                       THEN /\ offset' = offset
                            /\ fetch' = "returned"
                            /\ Fetched(all_photos')
                       ELSE /\ offset' = NextOffset(offset, page)
                            /\ pc' = "get_all_photos"
                            /\ UNCHANGED <<fetch, photos, outcome>>
               ELSE IF r = "empty"
               THEN /\ fetch' = "denied"
                    /\ UNCHANGED <<pages, all_photos, faithful, offset>>
                    /\ Fetched(<<>>)
               ELSE /\ fetch' = "raised"
                    /\ UNCHANGED <<pages, all_photos, faithful, offset, photos>>
                    /\ LeaveProcessUser("exception")
    /\ UNCHANGED <<runVars, paramVars, server, transferVars>>

\* ---- the transfer ------------------------------------------------------------------------
\* Results of one YandexDiskAPI.create_folder request: 201, 409 (both logged
\* and accepted), anything else (raised).
FolderResults == {"created", "exists", "failed"}

\* create_folder(BASE_FOLDER); create_folder(user_folder): a failure of either
\* is logged and raised out of process_user; the second request is issued only
\* if the first did not fail.
CreateFolders ==
    /\ pc = "create_folder"
    /\ inp' = ""
    /\ \E r1 \in FolderResults, r2 \in FolderResults :
         IF r1 = "failed"
         THEN folders' = folders + 1 /\ LeaveProcessUser("exception")
         ELSE IF r2 = "failed"
         THEN folders' = folders + 2 /\ LeaveProcessUser("exception")
         ELSE folders' = folders + 2 /\ pc' = LoopEntry(photos) /\ outcome' = outcome
    /\ UNCHANGED <<runVars, paramVars, fetchVars, given_sizes, largest, idx, attempts,
                   saved_photos, writes, manifest, reported>>

\* One iteration of `for photo in photos`: the largest rendition is selected
\* and transferred (save_photo_locally or upload_photo, each returning True or
\* False), and the manifest entry is appended on success.
TransferPhoto ==
    /\ pc = "transfer"
    /\ idx <= Len(photos)
    /\ inp' = ""
    /\ LET photo == photos[idx]
       IN /\ given_sizes' = photo.sizes
          /\ largest' = get_largest_size(photo.sizes)
          /\ \E success \in BOOLEAN :
               /\ attempts' = Append(attempts, <<photo.id, success>>)
               /\ saved_photos' = AppendSaved(saved_photos, photo, success)
               /\ LET nxt == AfterTransfer(success, idx = Len(photos))
                  IN IF nxt \in {"transfer", "write_manifest"}
                     THEN pc' = nxt /\ outcome' = outcome
                     ELSE LeaveProcessUser("exception")
    /\ idx' = idx + 1
    /\ UNCHANGED <<runVars, paramVars, fetchVars, folders, writes, manifest, reported>>

\* with open(f'photos_info_{user_id}.json', 'w') as f: json.dump(saved_photos, f)
\* and the count printed after it; open() may raise OSError.
WriteManifest ==
    /\ pc = "write_manifest"
    /\ inp' = ""
    /\ \E opened \in BOOLEAN :
         IF opened
         THEN /\ manifest' = <<user_id, saved_photos>>
              /\ writes' = writes + 1
              /\ reported' = Len(saved_photos)
              /\ LeaveProcessUser("manifest")
         ELSE /\ UNCHANGED <<manifest, writes, reported>>
              /\ LeaveProcessUser("exception")
    /\ UNCHANGED <<runVars, paramVars, fetchVars, folders, given_sizes, largest, idx,
                   attempts, saved_photos>>

Next ==
    \/ GetFriends
    \/ Menu
    \/ FriendPrompt
    \/ IdPrompt
    \/ SourcePrompt
    \/ GetAlbums
    \/ AlbumPrompt
    \/ CheckAccess
    \/ SavePrompt
    \/ PhotoPrompt
    \/ GetPhotos
    \/ GetAllPhotos
    \/ CreateFolders
    \/ TransferPhoto
    \/ WriteManifest

Spec == Init /\ [][Next]_vars

\* ---- get_largest_size on its own -------------------------------------------------------
\* Every list of 1..MaxSizes renditions.
SizeLists == UNION { [1..n -> Renditions] : n \in 1..MaxSizes }

InitSizes ==
    /\ pc = "get_largest_size"
    /\ inp = ""
    /\ friends = <<>>
    /\ user_id = ""
    /\ outcome = "none"
    /\ source_choice = "" /\ albums = <<>> /\ album_id = ""
    /\ access = "none" /\ access_reply = NoReply
    /\ save_choice = "" /\ photo_choice = ""
    /\ server = <<>> /\ faithful = TRUE
    /\ all_photos = <<>> /\ offset = 0 /\ requests = 0 /\ pages = <<>>
    /\ fetch = "none" /\ fetch_reply = NoReply /\ photos = <<>>
    /\ folders = 0 /\ largest = NoRendition /\ idx = 1
    /\ attempts = <<>> /\ saved_photos = <<>>
    /\ writes = 0 /\ manifest = <<>> /\ reported = -1
    /\ given_sizes \in SizeLists

LargestSize ==
    /\ pc = "get_largest_size"
    /\ largest' = get_largest_size(given_sizes)
    /\ pc' = "selected"
    /\ UNCHANGED <<inp, runVars, paramVars, fetchVars, folders, given_sizes, idx,
                   attempts, saved_photos, writes, manifest, reported, outcome>>

NextSizes == LargestSize

SpecSizes == InitSizes /\ [][NextSizes]_vars

\* ==== properties =========================================================================
ProcStages ==
    {"source_prompt", "get_albums", "album_prompt", "check_access", "save_prompt",
     "photo_prompt", "get_photos", "get_all_photos", "create_folder", "transfer",
     "write_manifest"}
WorkStages ==
    {"get_photos", "get_all_photos", "create_folder", "transfer", "write_manifest"}
Ended == {"manifest", "early_return", "exception"}
IsDenied(reply) == reply.status = "error" /\ reply.error_code = AccessDenied
IsOtherError(reply) == reply.status = "error" /\ reply.error_code # AccessDenied
AllFetch == photo_choice = "1"

RECURSIVE Flatten(_)
Flatten(ps) == IF ps = <<>> THEN <<>> ELSE Head(ps) \o Flatten(Tail(ps))

Successes(att) == {i \in 1..Len(att) : att[i][2]}

\* C1: in get_all_photos pagination stops exactly on a short page: while the
\* loop is running every page received so far was a full page and one request
\* was issued per page; once the function has returned through the loop, the
\* last page received is the only one shorter than the requested count, and
\* no request was issued after it.
C1_PaginationStops ==
    /\ pc = "get_all_photos" =>
         /\ requests = Len(pages)
         /\ \A i \in 1..Len(pages) : Len(pages[i]) = PageCount
    /\ (AllFetch /\ fetch = "returned") =>
         /\ Len(pages) >= 1
         /\ requests = Len(pages)
         /\ Len(pages[Len(pages)]) < PageCount
         /\ \A i \in 1..(Len(pages) - 1) : Len(pages[i]) = PageCount

\* C1 witness: the function returned after two full pages and a short one.
C1_Witness ==
    /\ AllFetch /\ fetch = "returned"
    /\ Len(pages) = 2
    /\ Len(pages[1]) = PageCount
    /\ Len(pages[2]) = 1

\* C10: at the start of every iteration of get_all_photos the offset is the
\* number of photos accumulated, the pages received are consecutive runs of
\* the album, the result is their concatenation, and an album served with
\* pages as long as it allows is returned whole after floor(N/count)+1 requests.
C10_OffsetAndResult ==
    /\ pc = "get_all_photos" => offset = Len(all_photos)
    /\ AllFetch =>
         /\ all_photos = Flatten(pages)
         /\ all_photos = SubSeq(server, 1, Len(all_photos))
    /\ (AllFetch /\ fetch = "returned") =>
         /\ photos = Flatten(pages)
         /\ faithful =>
              /\ photos = server
              /\ requests = (Len(server) \div PageCount) + 1

\* C10 witness: an album of exactly one full page, served faithfully, was
\* returned after a second request that got an empty page.
C10_Witness ==
    /\ AllFetch /\ fetch = "returned" /\ faithful
    /\ Len(server) = PageCount
    /\ requests = 2
    /\ pages[2] = <<>>

\* C2: a failed transfer does not abort the run: the transfers attempted are
\* the photos of the list, one attempt each, in list order; the loop is left
\* only after the last photo, and only for the manifest write.
C2_Attempts ==
    /\ Len(attempts) <= Len(photos)
    /\ \A i \in 1..Len(attempts) : attempts[i][1] = photos[i].id
    /\ pc = "transfer" => idx = Len(attempts) + 1
    /\ (attempts # <<>> /\ pc # "transfer") => Len(attempts) = Len(photos)
    /\ pc = "write_manifest" => Len(attempts) = Len(photos)

C2_Step ==
    pc = "transfer" => pc' \in {"transfer", "write_manifest"}

C2_FailureDoesNotAbort == []C2_Attempts /\ [][C2_Step]_vars

\* C2 witness: the manifest write is reached after a failed transfer that was
\* followed by a successful one.
C2_Witness ==
    /\ pc = "write_manifest"
    /\ \E i, j \in 1..Len(attempts) : i < j /\ ~attempts[i][2] /\ attempts[j][2]

\* The manifest entries of the successful transfers, in transfer order.
RECURSIVE EntriesOf(_, _)
EntriesOf(att, ph) ==
    IF att = <<>> THEN <<>>
    ELSE LET n == Len(att)
             rest == EntriesOf(SubSeq(att, 1, n - 1), ph)
         IN IF att[n][2] THEN rest \o << ManifestEntry(ph[n]) >> ELSE rest

\* C3: the manifest written has one entry per successful transfer of the run
\* and none for a failed one, in transfer order, and the count printed is the
\* number of successful transfers.
C3_ManifestCount ==
    /\ Len(saved_photos) = Cardinality(Successes(attempts))
    /\ outcome = "manifest" =>
         /\ Len(manifest[2]) = Cardinality(Successes(attempts))
         /\ manifest[2] = EntriesOf(attempts, photos)
         /\ reported = Cardinality(Successes(attempts))

\* C3 witness: a manifest written after a run with a failed and a successful transfer.
C3_Witness ==
    /\ outcome = "manifest"
    /\ \E i, j \in 1..Len(attempts) : ~attempts[i][2] /\ attempts[j][2]

\* C4: in both fetch modes a photos.get reply with error code 200 gives an
\* empty photo list and no exception (process_user returns normally with
\* nothing transferred), and any other API error is raised.
C4_AccessDeniedIsEmpty ==
    /\ IsDenied(fetch_reply) =>
         /\ photos = <<>>
         /\ attempts = <<>>
         /\ outcome = "early_return"
    /\ IsOtherError(fetch_reply) => outcome = "exception"

\* C5: when the reply to the album check reports error code 200,
\* check_album_access returns False without raising, and process_user returns
\* with no destination or scope read, no listing request, no folder, no
\* transfer and no manifest.
C5_DeniedAlbum ==
    IsDenied(access_reply) =>
        /\ access = "denied"
        /\ outcome = "early_return"
        /\ pc \notin ProcStages
        /\ save_choice = "" /\ photo_choice = ""
        /\ requests = 0 /\ folders = 0 /\ attempts = <<>>
        /\ writes = 0 /\ manifest = <<>>

\* C5 witness: the album check of a listed album got error code 200.
C5_Witness ==
    /\ IsDenied(access_reply)
    /\ source_choice = "3"
    /\ album_id = "256"

\* C6 (as claimed): every call of process_user that ends without raising has
\* written the manifest exactly once.
C6_AlwaysOneManifest ==
    outcome \in {"manifest", "early_return"} => writes = 1

\* C6 (amended): a call of process_user that ends without raising has written
\* the manifest photos_info_<user_id>.json exactly once if the access check,
\* when required, passed and the listing returned at least one photo, and has
\* written no manifest if it returned early (access denied, or no photos).
C6_ManifestUnlessEarlyReturn ==
    outcome \in {"manifest", "early_return"} =>
        /\ writes <= 1
        /\ writes = 1 <=> (access # "denied" /\ photos # <<>>)
        /\ writes = 1 => manifest[1] = user_id
        /\ writes = 0 => manifest = <<>>

\* C6 witness: one call ended with its manifest written, for a listed album.
C6_Witness ==
    /\ outcome = "manifest"
    /\ writes = 1
    /\ access = "passed"

\* C7: once the friend list is fetched, run goes back to the menu after every
\* outcome of process_user (manifest, early return, exception), an invalid
\* menu choice shows the menu again without processing a user, and run ends
\* only on the choice '4'.
C7_Step ==
    /\ (pc \in ProcStages /\ pc' \notin ProcStages) =>
         (pc' = "menu" /\ outcome' \in Ended)
    /\ (pc = "menu" /\ inp' \notin {"1", "2", "3", "4"}) =>
         (pc' = "menu" /\ UNCHANGED <<paramVars, fetchVars, transferVars, outcome>>)
    /\ (pc # "exited" /\ pc' = "exited") => (pc = "menu" /\ inp' = "4")
    /\ (pc # "get_friends") => pc' # "run_raised"

C7_LoopsBackToMenu == [][C7_Step]_vars

\* C7 witness: the menu is shown after process_user raised.
C7_Witness ==
    /\ pc = "menu"
    /\ outcome = "exception"
    /\ fetch = "raised"

\* C8: the steps of process_user run in the order source, album selection
\* (source '3' only), access check (specific album only), destination, scope,
\* listing and transfer; a prompt is left only on one of its options; nothing
\* is listed, created or transferred before the three parameters are fixed
\* and the access check, when required, has passed.
C8_ParamsFixed ==
    /\ access # "none" => (album_id # "profile" /\ album_id # "wall" /\ album_id # "")
    /\ albums # <<>> => source_choice = "3"
    /\ (pc \in WorkStages \/ requests > 0 \/ folders > 0 \/ attempts # <<>>) =>
         /\ source_choice \in {"1", "2", "3"}
         /\ source_choice = "1" <=> album_id = "profile"
         /\ source_choice = "2" <=> album_id = "wall"
         /\ source_choice = "3" =>
              (\E i \in 1..Len(albums) : album_id = albums[i]) /\ access = "passed"
         /\ source_choice # "3" => access = "none"
         /\ save_choice \in {"1", "2"}
         /\ photo_choice \in {"1", "2"}

C8_Step ==
    /\ pc = "source_prompt" =>
         /\ pc' \in {"source_prompt", "get_albums", "check_access"}
         /\ pc' # "source_prompt" <=> inp' \in {"1", "2", "3"}
         /\ pc' = "get_albums" <=> inp' = "3"
    /\ pc = "get_albums" => pc' \in {"album_prompt", "menu"}
    /\ pc = "album_prompt" =>
         /\ pc' \in {"album_prompt", "check_access"}
         /\ pc' = "check_access" <=>
              (IsInt(inp') /\ ToInt(inp') \in 1..Len(albums))
    /\ pc = "check_access" => pc' \in {"save_prompt", "menu"}
    /\ pc = "save_prompt" =>
         /\ pc' \in {"save_prompt", "photo_prompt"}
         /\ pc' = "photo_prompt" <=> inp' \in {"1", "2"}
    /\ pc = "photo_prompt" =>
         /\ pc' \in {"photo_prompt", "get_photos", "get_all_photos"}
         /\ pc' # "photo_prompt" <=> inp' \in {"1", "2"}
    /\ pc \in {"get_photos", "get_all_photos"} =>
         pc' \in {"get_all_photos", "create_folder", "transfer", "menu"}
    /\ pc = "create_folder" => pc' \in {"transfer", "menu"}

C8_WizardOrder == []C8_ParamsFixed /\ [][C8_Step]_vars

\* C8 witness: a photo of a listed album is being transferred to the cloud.
C8_Witness ==
    /\ pc = "transfer"
    /\ source_choice = "3"
    /\ access = "passed"
    /\ folders = 2
    /\ attempts # <<>>

\* C9: for every non-empty list of renditions get_largest_size returns one of
\* them whose width*height is at least that of every rendition of the list;
\* the result is fixed by the list: it is the first rendition of that area.
C9_LargestRendition ==
    pc = "selected" =>
        /\ \E i \in 1..Len(given_sizes) :
             /\ largest = given_sizes[i]
             /\ \A j \in 1..(i - 1) : Area(given_sizes[j]) < Area(largest)
        /\ \A j \in 1..Len(given_sizes) : Area(given_sizes[j]) <= Area(largest)

\* C9 witness: two different renditions tie for the largest area, behind a
\* smaller and wider-or-equal first one.
C9_Witness ==
    /\ pc = "selected"
    /\ Len(given_sizes) = 3
    /\ Area(given_sizes[1]) < Area(given_sizes[2])
    /\ given_sizes[1].width >= given_sizes[2].width
    /\ Area(given_sizes[2]) = Area(given_sizes[3])
    /\ given_sizes[2] # given_sizes[3]
    /\ largest = given_sizes[2]

====
